---- MODULE Spec2Model ----
(***************************************************************************)
(* Orchestrator of the distributed task platform: the State Store, the     *)
(* Lamport clock, the round-robin load balancer, the client handlers, the  *)
(* worker UDP receiver, the liveness monitor, the dispatcher loop and the  *)
(* primary/backup replication.  Every per-orchestrator variable is a       *)
(* function of the replica: "P" is started as PRIMARY, "B" with --backup.  *)
(***************************************************************************)
EXTENDS Integers, Sequences, FiniteSets, TLC

\* ------------------------------------------------------------------ bounds
MaxTasks == 2
MaxHandlers == 2
MaxTime == 10
MaxReplTime == 20
MaxSnapTasks == 2
MaxCalls == 9
MaxDeliveries == 2
MaxAnyCalls == 4
TickStep == 5

\* ------------------------------------------------------- program constants
WORKER_TIMEOUT == 5
PRIMARY_TIMEOUT == 5

Replicas == {"P", "B"}
None == "None"
NoTask == 0
TaskIds == 1..MaxTasks
\* worker ids in sorted() order: the index is the sort key
WorkerIds == <<"localhost_60001", "localhost_60002", "localhost_60003">>
\* the worker processes that are started
WorkerSet == {WorkerIds[1], WorkerIds[2]}
Users == {"user1"}
Payloads == {"d1"}
Results == {"r1"}

VARIABLES
    tasks,            \* StateManager.tasks: dict in insertion order, a sequence of Task records
    pending_tasks,    \* StateManager.pending_tasks
    workers,          \* StateManager.workers: dict in insertion order
    time,             \* LamportClock.time
    lb_workers,       \* RoundRobinLoadBalancer.workers
    current_index,    \* RoundRobinLoadBalancer.current_index
    role,             \* Orchestrator.role
    last_primary_heartbeat,
    alive,            \* the orchestrator process is running
    h_tasks,          \* Task objects built by client handlers, not yet passed to add_task
    d_pc, d_task, d_worker,   \* TaskDistributor thread: position, local task, local worker_id
    m_pc, m_active, m_wake,   \* WorkerMonitor thread: position, local active_workers, end of its sleep
    u_pc,             \* WorkerListener thread
    s_pc,             \* StateSyncer thread
    b_pc, b_recv_start,       \* BackupListener thread: position, start of the pending recvfrom
    net,              \* multicast datagrams in flight
    now,              \* wall clock, seconds
    next_uuid,        \* uuid.uuid4(): the next fresh task id
    sent,             \* task ids some worker has received over TCP
    ts_log,           \* history: values returned by increment(), in call order
    lb_log,           \* history: values returned by get_next_worker(), in call order
    h_last,           \* the last request a client handler answered without a task, and its reply
    b_loaded,         \* history: the last snapshot load_state_snapshot applied in full
    u_log,            \* history: the task_complete datagrams handled, in order of delivery
    lk                \* per thread, the operation it is in and the mutexes it holds

vars == <<tasks, pending_tasks, workers, time, lb_workers, current_index, role,
          last_primary_heartbeat, alive, h_tasks, d_pc, d_task, d_worker, m_pc,
          m_active, m_wake, u_pc, s_pc, b_pc, b_recv_start, net, now, next_uuid, sent,
          ts_log, lb_log, h_last, b_loaded, u_log, lk>>

aux_vars == <<lb_log, h_last, b_loaded, u_log, lk>>

\* ----------------------------------------------- dicts in insertion order
Keys(d) == {d[i].id : i \in DOMAIN d}
Has(d, k) == k \in Keys(d)
Get(d, k) == d[CHOOSE i \in DOMAIN d : d[i].id = k]
Put(d, rec) ==
    IF Has(d, rec.id)
    THEN [i \in DOMAIN d |-> IF d[i].id = rec.id THEN rec ELSE d[i]]
    ELSE Append(d, rec)
Del(d, k) == SelectSeq(d, LAMBDA e : e.id # k)
KeySeq(d) == [i \in DOMAIN d |-> d[i].id]
Range(s) == {s[i] : i \in DOMAIN s}

\* ------------------------------------------------------------ shared.models
Task(id, client_id, data, lamport_ts) ==
    [id |-> id, client_id |-> client_id, status |-> "PENDING", data |-> data,
     lamport_ts |-> lamport_ts, assigned_worker |-> None, result |-> None]

\* ------------------------------------------------------------ LamportClock
\* mutant: increment() returns the time without advancing it
increment_no_advance(t) == t

increment(t) == t + 1

\* ------------------------------------------------------------ StateManager
add_task(T, Q, task) ==
    [tasks |-> Put(T, task), pending_tasks |-> Append(Q, task.id)]

\* mutant: the head is popped and returned but its status is left as it was
get_next_task_no_status(T, Q) ==
    IF Q = <<>>
    THEN [tasks |-> T, pending_tasks |-> Q, task |-> NoTask]
    ELSE LET task_id == Head(Q) IN
         IF Has(T, task_id)
         THEN [tasks |-> T, pending_tasks |-> Tail(Q), task |-> task_id]
         ELSE [tasks |-> T, pending_tasks |-> Tail(Q), task |-> NoTask]

\* the caller sees task = NoTask when the queue is empty or the id is unknown
get_next_task(T, Q) ==
    IF Q = <<>>
    THEN [tasks |-> T, pending_tasks |-> Q, task |-> NoTask]
    ELSE LET task_id == Head(Q) IN
         IF Has(T, task_id)
         THEN [tasks |-> Put(T, [Get(T, task_id) EXCEPT !.status = "IN_PROGRESS"]),
               pending_tasks |-> Tail(Q), task |-> task_id]
         ELSE [tasks |-> T, pending_tasks |-> Tail(Q), task |-> NoTask]

update_worker_heartbeat(W, worker_id, worker_addr, t) ==
    Put(W, [id |-> worker_id, addr |-> worker_addr, last_heartbeat |-> t])

\* mutant: a worker whose heartbeat is exactly WORKER_TIMEOUT old is dead too
IsDead_at_timeout(w, t) == t - w.last_heartbeat >= WORKER_TIMEOUT

IsDead(w, t) == t - w.last_heartbeat > WORKER_TIMEOUT

dead_workers(W, t) == KeySeq(SelectSeq(W, LAMBDA w : IsDead(w, t)))

\* mutant: the rescued task is reset but its id is not put back in the queue
RECURSIVE requeue_tasks_of_no_insert(_, _, _, _)
requeue_tasks_of_no_insert(T, Q, worker_id, i) ==
    IF i > Len(T) THEN [tasks |-> T, pending_tasks |-> Q]
    ELSE IF T[i].assigned_worker = worker_id /\ T[i].status = "IN_PROGRESS"
         THEN requeue_tasks_of_no_insert(
                  [T EXCEPT ![i].status = "PENDING", ![i].assigned_worker = None],
                  Q, worker_id, i + 1)
         ELSE requeue_tasks_of_no_insert(T, Q, worker_id, i + 1)

\* mutant: the rescued task is appended (append) instead of prepended (insert(0, ..))
RECURSIVE requeue_tasks_of_append(_, _, _, _)
requeue_tasks_of_append(T, Q, worker_id, i) ==
    IF i > Len(T) THEN [tasks |-> T, pending_tasks |-> Q]
    ELSE IF T[i].assigned_worker = worker_id /\ T[i].status = "IN_PROGRESS"
         THEN requeue_tasks_of_append(
                  [T EXCEPT ![i].status = "PENDING", ![i].assigned_worker = None],
                  Append(Q, T[i].id), worker_id, i + 1)
         ELSE requeue_tasks_of_append(T, Q, worker_id, i + 1)

\* the inner loop of check_dead_workers for one dead worker: tasks from index i on
RECURSIVE requeue_tasks_of(_, _, _, _)
requeue_tasks_of(T, Q, worker_id, i) ==
    IF i > Len(T) THEN [tasks |-> T, pending_tasks |-> Q]
    ELSE IF T[i].assigned_worker = worker_id /\ T[i].status = "IN_PROGRESS"
         THEN requeue_tasks_of(
                  [T EXCEPT ![i].status = "PENDING", ![i].assigned_worker = None],
                  <<T[i].id>> \o Q, worker_id, i + 1)
         ELSE requeue_tasks_of(T, Q, worker_id, i + 1)

\* the outer loop of check_dead_workers over the list dead
RECURSIVE remove_dead(_, _, _, _)
remove_dead(T, Q, W, dead) ==
    IF dead = <<>> THEN [tasks |-> T, pending_tasks |-> Q, workers |-> W]
    ELSE LET r == requeue_tasks_of(T, Q, Head(dead), 1) IN
         remove_dead(r.tasks, r.pending_tasks, Del(W, Head(dead)), Tail(dead))

check_dead_workers(T, Q, W, t) ==
    LET r == remove_dead(T, Q, W, dead_workers(W, t)) IN
    [tasks |-> r.tasks, pending_tasks |-> r.pending_tasks, workers |-> r.workers,
     active |-> KeySeq(r.workers)]

\* get_task_status: the task's __dict__, or None
get_task_status(T, task_id) == IF Has(T, task_id) THEN Get(T, task_id) ELSE None

\* handle_task_status: the reply to {action: task_status, task_id}
\* (`if status`: a task's __dict__ is never empty, so it is true iff the id is known)
handle_task_status(T, task_id) ==
    IF Has(T, task_id)
    THEN get_task_status(T, task_id)
    ELSE [error |-> "Tarefa nao encontrada"]

\* mutant: an unknown id gets a task record
update_task_status_upsert(T, task_id, status, result) ==
    Put(T, [IF Has(T, task_id) THEN Get(T, task_id) ELSE Task(task_id, None, None, 0)
               EXCEPT !.status = status, !.result = result])

\* mutant: the result of a task that already has one is kept
update_task_status_keep_first(T, task_id, status, result) ==
    IF Has(T, task_id)
    THEN Put(T, [Get(T, task_id) EXCEPT
                    !.status = status,
                    !.result = IF Get(T, task_id).result # None
                               THEN Get(T, task_id).result ELSE result])
    ELSE T

\* mutant: a task that is already in the given status loses its result
update_task_status_not_idempotent(T, task_id, status, result) ==
    IF Has(T, task_id)
    THEN Put(T, [Get(T, task_id) EXCEPT
                    !.status = status,
                    !.result = IF Get(T, task_id).status = status THEN None ELSE result])
    ELSE T

\* mutant: the status is written, the result is not
update_task_status_no_result(T, task_id, status, result) ==
    IF Has(T, task_id)
    THEN Put(T, [Get(T, task_id) EXCEPT !.status = status])
    ELSE T

update_task_status(T, task_id, status, result) ==
    IF Has(T, task_id)
    THEN Put(T, [Get(T, task_id) EXCEPT !.status = status, !.result = result])
    ELSE T

\* --------------------------------------------------- RoundRobinLoadBalancer
SortKey(w) == CHOOSE i \in DOMAIN WorkerIds : WorkerIds[i] = w

RECURSIVE SortedSeqOf(_)
SortedSeqOf(S) ==
    IF S = {} THEN <<>>
    ELSE LET m == CHOOSE x \in S : \A y \in S : SortKey(x) <= SortKey(y) IN
         <<m>> \o SortedSeqOf(S \ {m})

\* mutant: the list is kept in the order it was supplied
sorted_as_given(l) == l

\* sorted(list): duplicates cannot occur in a list of dict keys
sorted(l) == SortedSeqOf(Range(l))

\* mutant: the index is kept when the list shrinks
update_workers_no_reset(idx, l) ==
    [workers |-> sorted(l), current_index |-> idx]

update_workers(idx, l) ==
    [workers |-> sorted(l),
     current_index |-> IF idx >= Len(sorted(l)) THEN 0 ELSE idx]

\* mutant: the index is not advanced
get_next_worker_no_advance(L, idx) ==
    IF L = <<>> THEN [worker |-> None, current_index |-> idx]
    ELSE LET i == IF idx >= Len(L) THEN 0 ELSE idx IN
         [worker |-> L[i + 1], current_index |-> i]

\* indices are Python's (from 0); worker = None when the list is empty
get_next_worker(L, idx) ==
    IF L = <<>> THEN [worker |-> None, current_index |-> idx]
    ELSE LET i == IF idx >= Len(L) THEN 0 ELSE idx IN
         [worker |-> L[i + 1], current_index |-> (i + 1) % Len(L)]

\* -------------------------------------------------------------------- Init
\* the threads of one orchestrator
Threads == {"Client", "WorkerListener", "TaskDistributor", "WorkerMonitor", "StateSyncer",
            "BackupListener"}
NoRequest == [action |-> None, token |-> <<>>, reply |-> None]
NoSnapshot == [kind |-> "none"]

AuxInit ==
    /\ lb_log = <<>>
    /\ h_last = [r \in Replicas |-> NoRequest]
    /\ b_loaded = [r \in Replicas |-> NoSnapshot]
    /\ u_log = <<>>
    /\ lk = [t \in Threads |-> [op |-> "idle", pc |-> 0, held |-> <<>>]]

\* the state after Orchestrator.__init__ on each replica; up says which are started
InitWith(up) ==
    /\ tasks = [r \in Replicas |-> <<>>]
    /\ pending_tasks = [r \in Replicas |-> <<>>]
    /\ workers = [r \in Replicas |-> <<>>]
    /\ time = [r \in Replicas |-> 0]
    /\ lb_workers = [r \in Replicas |-> <<>>]
    /\ current_index = [r \in Replicas |-> 0]
    /\ role = [r \in Replicas |-> IF r = "B" THEN "BACKUP" ELSE "PRIMARY"]
    /\ last_primary_heartbeat = [r \in Replicas |-> 0]
    /\ alive = [r \in Replicas |-> r \in up]
    /\ h_tasks = [r \in Replicas |-> {}]
    /\ d_pc = [r \in Replicas |-> "get_next_task"]
    /\ d_task = [r \in Replicas |-> NoTask]
    /\ d_worker = [r \in Replicas |-> None]
    /\ m_pc = [r \in Replicas |-> "sleep"]
    /\ m_active = [r \in Replicas |-> <<>>]
    /\ m_wake = [r \in Replicas |-> WORKER_TIMEOUT]
    /\ u_pc = [r \in Replicas |-> "recvfrom"]
    /\ s_pc = [r \in Replicas |-> "snapshot"]
    /\ b_pc = [r \in Replicas |-> "check"]
    /\ b_recv_start = [r \in Replicas |-> 0]
    /\ net = {}
    /\ now = 0
    /\ next_uuid = 1
    /\ sent = {}
    /\ ts_log = [r \in Replicas |-> <<>>]
    /\ AuxInit

\* a primary started alone, without a backup
Init == InitWith({"P"})

\* the threads start_primary_services starts run on a live PRIMARY
Serving(r) == alive[r] /\ role[r] = "PRIMARY"

store_vars == <<tasks, pending_tasks, workers>>
lb_vars == <<lb_workers, current_index>>
repl_vars == <<role, last_primary_heartbeat, alive, s_pc, b_pc, b_recv_start, net>>
d_vars == <<d_pc, d_task, d_worker>>
m_vars == <<m_pc, m_active, m_wake>>

\* ------------------------------------------------ client handler threads
SECRET_KEY == "sua-chave-super-secreta"
\* hashlib.sha256(f"{username}{SECRET_KEY}").hexdigest(): the digest stands for the
\* pair it was computed from
TokenOf(user, key) == <<user, key>>
\* the request has no "token" key
NoToken == <<>>
\* the tokens a request may carry: none, a user's, and two forged ones
Tokens == {NoToken} \cup {TokenOf(u, SECRET_KEY) : u \in Users}
              \cup {TokenOf("mallory", SECRET_KEY), TokenOf("user1", "guessed-key")}
RequestActions == {"login", "submit_task", "task_status", "other"}
Requests == [action : RequestActions, token : Tokens]

\* mutant: every token is accepted
verify_token_any(token) == TRUE

verify_token(token) == \E user \in Users : token = TokenOf(user, SECRET_KEY)

get_user_from_token(token) ==
    IF \E user \in Users : token = TokenOf(user, SECRET_KEY)
    THEN CHOOSE user \in Users : token = TokenOf(user, SECRET_KEY)
    ELSE "unknown"

\* handle_client: what a decoded request leads to
handle_client(request) ==
    IF request.token = NoToken
    THEN IF request.action = "login" THEN "handle_login" ELSE "error_auth"
    ELSE IF ~verify_token(request.token) THEN "error_token"
    ELSE IF request.action = "submit_task" THEN "handle_submit_task"
    ELSE IF request.action = "task_status" THEN "handle_task_status"
    ELSE "no_reply"

\* the replies of the branches that build no task
Replies(route) ==
    IF route = "error_auth" THEN {"error: Autenticacao necessaria"}
    ELSE IF route = "error_token" THEN {"error: Token invalido ou expirado"}
    ELSE IF route = "handle_login" THEN {"token", "error: Credenciais invalidas"}
    ELSE IF route = "handle_task_status" THEN {"task", "error: Tarefa nao encontrada"}
    ELSE {None}

\* handle_client for a request that is answered without building a task
HandleReply(r) ==
    /\ Serving(r)
    /\ \E request \in Requests :
         LET route == handle_client(request) IN
         /\ route # "handle_submit_task"
         /\ \E reply \in Replies(route) :
              h_last' = [h_last EXCEPT ![r] = [action |-> request.action,
                                              token |-> request.token, reply |-> reply]]
    /\ UNCHANGED <<store_vars, time, lb_vars, repl_vars, h_tasks, d_vars, m_vars, u_pc,
                   now, next_uuid, sent, ts_log, lb_log, b_loaded, u_log, lk>>

\* handle_submit_task up to the construction of the Task: uuid4 and increment()
HandleSubmitCreate(r) ==
    /\ Serving(r)
    /\ Cardinality(h_tasks[r]) < MaxHandlers
    /\ next_uuid <= MaxTasks
    /\ \E request \in Requests, data \in Payloads :
         LET ts == increment(time[r])
             client_id == get_user_from_token(request.token) IN
         /\ handle_client(request) = "handle_submit_task"
         /\ time' = [time EXCEPT ![r] = ts]
         /\ ts_log' = [ts_log EXCEPT ![r] = Append(@, ts)]
         /\ h_tasks' = [h_tasks EXCEPT ![r] = @ \cup {Task(next_uuid, client_id, data, ts)}]
         /\ next_uuid' = next_uuid + 1
    /\ UNCHANGED <<store_vars, lb_vars, repl_vars, d_vars, m_vars, u_pc, now, sent,
                   aux_vars>>

\* handle_submit_task from state_manager.add_task(task) on
HandleSubmitAdd(r) ==
    /\ Serving(r)
    /\ \E task \in h_tasks[r] :
         LET s == add_task(tasks[r], pending_tasks[r], task) IN
         /\ tasks' = [tasks EXCEPT ![r] = s.tasks]
         /\ pending_tasks' = [pending_tasks EXCEPT ![r] = s.pending_tasks]
         /\ h_tasks' = [h_tasks EXCEPT ![r] = @ \ {task}]
    /\ UNCHANGED <<workers, time, lb_vars, repl_vars, d_vars, m_vars, u_pc, now,
                   next_uuid, sent, ts_log, aux_vars>>

\* ------------------------------------------------- WorkerListener thread
\* the source address recvfrom reports for a worker's datagrams: a Python tuple
AddrOf(w) == [py |-> "tuple", host |-> "127.0.0.1", port |-> 40000 + SortKey(w)]

\* listen_for_workers: a heartbeat datagram
UdpHeartbeat(r) ==
    /\ Serving(r) /\ u_pc[r] = "recvfrom"
    /\ \E w \in WorkerSet :
         workers' = [workers EXCEPT ![r] =
                        update_worker_heartbeat(@, w, AddrOf(w), now)]
    /\ UNCHANGED <<tasks, pending_tasks, time, lb_vars, repl_vars, h_tasks, d_vars,
                   m_vars, u_pc, now, next_uuid, sent, ts_log, aux_vars>>

\* listen_for_workers: a task_complete datagram from a worker that received the task
UdpTaskComplete(r) ==
    /\ Serving(r) /\ u_pc[r] = "recvfrom"
    /\ \E task_id \in sent, result \in Results :
         tasks' = [tasks EXCEPT ![r] =
                      update_task_status(@, task_id, "COMPLETED", result)]
    /\ UNCHANGED <<pending_tasks, workers, time, lb_vars, repl_vars, h_tasks, d_vars,
                   m_vars, u_pc, now, next_uuid, sent, ts_log, aux_vars>>

\* datagrams that are not a heartbeat or a task_complete of the documented shape
MalformedDatagrams == {"not_json", "heartbeat_without_worker_id",
                       "task_complete_without_task_id", "task_complete_without_result",
                       "unknown_type"}

\* where listen_for_workers is after such a datagram: json.loads raises
\* JSONDecodeError, message["worker_id"] / ["task_id"] / ["result"] raise KeyError,
\* and nothing in the function catches them; an unknown type matches no branch
AfterMalformed(d) == IF d = "unknown_type" THEN "recvfrom" ELSE "crashed"

\* listen_for_workers: a malformed datagram
UdpMalformed(r) ==
    /\ Serving(r) /\ u_pc[r] = "recvfrom"
    /\ \E d \in MalformedDatagrams : u_pc' = [u_pc EXCEPT ![r] = AfterMalformed(d)]
    /\ UNCHANGED <<store_vars, time, lb_vars, repl_vars, h_tasks, d_vars, m_vars, now,
                   next_uuid, sent, ts_log, aux_vars>>

\* -------------------------------------------------- WorkerMonitor thread
\* monitor_workers: the sleep has ended; check_dead_workers()
MonitorCheck(r) ==
    /\ Serving(r) /\ m_pc[r] = "sleep" /\ now >= m_wake[r]
    /\ LET s == check_dead_workers(tasks[r], pending_tasks[r], workers[r], now) IN
         /\ tasks' = [tasks EXCEPT ![r] = s.tasks]
         /\ pending_tasks' = [pending_tasks EXCEPT ![r] = s.pending_tasks]
         /\ workers' = [workers EXCEPT ![r] = s.workers]
         /\ m_active' = [m_active EXCEPT ![r] = s.active]
    /\ m_pc' = [m_pc EXCEPT ![r] = "update_workers"]
    /\ UNCHANGED <<time, lb_vars, repl_vars, h_tasks, d_vars, m_wake, u_pc, now,
                   next_uuid, sent, ts_log, aux_vars>>

\* monitor_workers: load_balancer.update_workers(active_workers), then sleep again
MonitorUpdate(r) ==
    /\ Serving(r) /\ m_pc[r] = "update_workers"
    /\ LET b == update_workers(current_index[r], m_active[r]) IN
         /\ lb_workers' = [lb_workers EXCEPT ![r] = b.workers]
         /\ current_index' = [current_index EXCEPT ![r] = b.current_index]
    /\ m_pc' = [m_pc EXCEPT ![r] = "sleep"]
    /\ m_active' = [m_active EXCEPT ![r] = <<>>]
    /\ m_wake' = [m_wake EXCEPT ![r] = now + WORKER_TIMEOUT]
    /\ UNCHANGED <<store_vars, time, repl_vars, h_tasks, d_vars, u_pc, now,
                   next_uuid, sent, ts_log, aux_vars>>

\* ------------------------------------------------ TaskDistributor thread
SetAssigned(T, task_id, w) ==
    IF Has(T, task_id) THEN Put(T, [Get(T, task_id) EXCEPT !.assigned_worker = w]) ELSE T

\* distribute_tasks: state_manager.get_next_task(); nothing to do sleeps and retries
DistGetNextTask(r) ==
    /\ Serving(r) /\ d_pc[r] = "get_next_task"
    /\ LET s == get_next_task(tasks[r], pending_tasks[r]) IN
         /\ tasks' = [tasks EXCEPT ![r] = s.tasks]
         /\ pending_tasks' = [pending_tasks EXCEPT ![r] = s.pending_tasks]
         /\ d_task' = [d_task EXCEPT ![r] = s.task]
         /\ d_pc' = [d_pc EXCEPT ![r] =
                        IF s.task = NoTask THEN "get_next_task" ELSE "get_next_worker"]
    /\ UNCHANGED <<workers, time, lb_vars, repl_vars, h_tasks, d_worker, m_vars, u_pc,
                   now, next_uuid, sent, ts_log, aux_vars>>

\* distribute_tasks: load_balancer.get_next_worker()
DistGetNextWorker(r) ==
    /\ Serving(r) /\ d_pc[r] = "get_next_worker"
    /\ LET b == get_next_worker(lb_workers[r], current_index[r]) IN
         /\ current_index' = [current_index EXCEPT ![r] = b.current_index]
         /\ d_worker' = [d_worker EXCEPT ![r] = b.worker]
         /\ d_pc' = [d_pc EXCEPT ![r] = IF b.worker = None THEN "no_worker" ELSE "lookup"]
    /\ UNCHANGED <<store_vars, time, lb_workers, repl_vars, h_tasks, d_task, m_vars,
                   u_pc, now, next_uuid, sent, ts_log, aux_vars>>

\* the Task object the dispatcher holds a reference to
HeldTask(r) == Get(tasks[r], d_task[r])

\* what the dispatcher does to put the task it holds back: add_task(task)
RequeueNoWorker(T, Q, task) == add_task(T, Q, task)

\* distribute_tasks: no worker available, the task goes back through add_task
DistNoWorker(r) ==
    /\ Serving(r) /\ d_pc[r] = "no_worker"
    /\ LET s == RequeueNoWorker(tasks[r], pending_tasks[r], HeldTask(r)) IN
         /\ tasks' = [tasks EXCEPT ![r] = s.tasks]
         /\ pending_tasks' = [pending_tasks EXCEPT ![r] = s.pending_tasks]
    /\ d_pc' = [d_pc EXCEPT ![r] = "get_next_task"]
    /\ d_task' = [d_task EXCEPT ![r] = NoTask]
    /\ d_worker' = [d_worker EXCEPT ![r] = None]
    /\ UNCHANGED <<workers, time, lb_vars, repl_vars, h_tasks, m_vars, u_pc, now,
                   next_uuid, sent, ts_log, aux_vars>>

\* distribute_tasks: state_manager.workers[worker_id]['addr'], KeyError when absent
DistLookup(r) ==
    /\ Serving(r) /\ d_pc[r] = "lookup"
    /\ d_pc' = [d_pc EXCEPT ![r] =
                   IF Has(workers[r], d_worker[r]) THEN "connect" ELSE "except"]
    /\ UNCHANGED <<store_vars, time, lb_vars, repl_vars, h_tasks, d_task, d_worker,
                   m_vars, u_pc, now, next_uuid, sent, ts_log, aux_vars>>

\* what s.connect(task_addr) can do: succeed, raise ConnectionRefusedError, or
\* raise another OSError (timeout, unreachable host)
ConnectOutcomes == {"ok", "refused", "oserror"}
\* what s.sendall can do: succeed, or raise BrokenPipeError / ConnectionResetError
SendOutcomes == {"ok", "broken_pipe"}

\* where the dispatcher goes after an exception of the try block
AfterException(exc) ==
    IF exc \in {"KeyError", "ConnectionRefusedError"} THEN "except" ELSE "crashed"

\* distribute_tasks: s.connect(task_addr), then task.assigned_worker = worker_id
DistConnect(r) ==
    /\ Serving(r) /\ d_pc[r] = "connect"
    /\ \E outcome \in ConnectOutcomes :
         \/ /\ outcome = "ok"
            /\ tasks' = [tasks EXCEPT ![r] = SetAssigned(@, d_task[r], d_worker[r])]
            /\ d_pc' = [d_pc EXCEPT ![r] = "sendall"]
         \/ /\ outcome = "refused"
            /\ d_pc' = [d_pc EXCEPT ![r] = AfterException("ConnectionRefusedError")]
            /\ UNCHANGED tasks
         \/ /\ outcome = "oserror"
            /\ d_pc' = [d_pc EXCEPT ![r] = AfterException("OSError")]
            /\ UNCHANGED tasks
    /\ UNCHANGED <<pending_tasks, workers, time, lb_vars, repl_vars, h_tasks, d_task,
                   d_worker, m_vars, u_pc, now, next_uuid, sent, ts_log, aux_vars>>

\* distribute_tasks: s.sendall(json.dumps(task.__dict__)), end of the iteration
DistSend(r) ==
    /\ Serving(r) /\ d_pc[r] = "sendall"
    /\ \E outcome \in SendOutcomes :
         \/ /\ outcome = "ok"
            /\ sent' = sent \cup {d_task[r]}
            /\ d_pc' = [d_pc EXCEPT ![r] = "get_next_task"]
            /\ d_task' = [d_task EXCEPT ![r] = NoTask]
            /\ d_worker' = [d_worker EXCEPT ![r] = None]
         \/ /\ outcome = "broken_pipe"
            /\ d_pc' = [d_pc EXCEPT ![r] = AfterException("BrokenPipeError")]
            /\ UNCHANGED <<sent, d_task, d_worker>>
    /\ UNCHANGED <<store_vars, time, lb_vars, repl_vars, h_tasks, m_vars, u_pc, now,
                   next_uuid, ts_log, aux_vars>>

\* what the except block does to the task: assigned_worker = None, add_task(task)
RequeueFailed(T, Q, task) == add_task(T, Q, [task EXCEPT !.assigned_worker = None])

\* distribute_tasks: the except (KeyError, ConnectionRefusedError) block
DistExcept(r) ==
    /\ Serving(r) /\ d_pc[r] = "except"
    /\ LET s == RequeueFailed(tasks[r], pending_tasks[r], HeldTask(r)) IN
         /\ tasks' = [tasks EXCEPT ![r] = s.tasks]
         /\ pending_tasks' = [pending_tasks EXCEPT ![r] = s.pending_tasks]
    /\ d_pc' = [d_pc EXCEPT ![r] = "get_next_task"]
    /\ d_task' = [d_task EXCEPT ![r] = NoTask]
    /\ d_worker' = [d_worker EXCEPT ![r] = None]
    /\ UNCHANGED <<workers, time, lb_vars, repl_vars, h_tasks, m_vars, u_pc, now,
                   next_uuid, sent, ts_log, aux_vars>>

\* ------------------------------------------------------------- wall clock
Tick ==
    /\ now + TickStep <= MaxTime
    /\ now' = now + TickStep
    /\ UNCHANGED <<store_vars, time, lb_vars, repl_vars, h_tasks, d_vars, m_vars, u_pc,
                   next_uuid, sent, ts_log, aux_vars>>

\* ------------------------------------------------- snapshot serialization
TaskFields == {"id", "client_id", "status", "data", "lamport_ts", "assigned_worker",
               "result"}
\* the dataclass defaults of Task; id and client_id have none
TaskDefault == [status |-> "PENDING", data |-> "{}", lamport_ts |-> 0,
                assigned_worker |-> None, result |-> None]

\* json.dumps then json.loads of a value: a tuple comes back as a list
JsonAddr(a) == [a EXCEPT !.py = "list"]
JsonWorkers(W) == [i \in DOMAIN W |-> [W[i] EXCEPT !.addr = JsonAddr(@)]]

\* get_state_snapshot: the decoded form of the bytes it returns
get_state_snapshot(T, Q, W) ==
    [kind |-> "object",
     obj |-> [tasks |-> T, pending_tasks |-> Q, workers |-> JsonWorkers(W)]]

\* Task(**t_data) raises TypeError on a missing or an unexpected keyword
ValidTaskData(d) == {"id", "client_id"} \subseteq DOMAIN d /\ DOMAIN d \subseteq TaskFields
TaskFromData(d) ==
    [f \in TaskFields |-> IF f \in DOMAIN d THEN d[f] ELSE TaskDefault[f]]

RECURSIVE MaxTs(_, _, _)
MaxTs(T, i, max_ts) ==
    IF i > Len(T) THEN max_ts
    ELSE MaxTs(T, i + 1, IF T[i].lamport_ts > max_ts THEN T[i].lamport_ts ELSE max_ts)

\* load_state_snapshot, statement by statement; raised is the exception that leaves
\* the method ("None": it returned, having caught JSONDecodeError or KeyError if any)
load_state_snapshot(T, Q, W, clk, body) ==
    LET same == [tasks |-> T, pending_tasks |-> Q, workers |-> W, time |-> clk] IN
    IF body.kind = "not_utf8" THEN same @@ [raised |-> "UnicodeDecodeError"]
    ELSE IF body.kind = "not_json" THEN same @@ [raised |-> None]
    ELSE IF body.kind = "not_object" THEN same @@ [raised |-> "TypeError"]
    ELSE LET state == body.obj IN
         IF "tasks" \notin DOMAIN state THEN same @@ [raised |-> None]
         ELSE IF \E i \in DOMAIN state.tasks : ~ValidTaskData(state.tasks[i])
              THEN same @@ [raised |-> "TypeError"]
         ELSE LET T1 == [i \in DOMAIN state.tasks |-> TaskFromData(state.tasks[i])] IN
              IF "pending_tasks" \notin DOMAIN state
              THEN [same EXCEPT !.tasks = T1] @@ [raised |-> None]
              ELSE IF "workers" \notin DOMAIN state
                   THEN [same EXCEPT !.tasks = T1,
                                     !.pending_tasks = state.pending_tasks]
                        @@ [raised |-> None]
                   ELSE [tasks |-> T1, pending_tasks |-> state.pending_tasks,
                         workers |-> state.workers, time |-> MaxTs(T1, 1, 0),
                         raised |-> None]

\* ---------------------------------------------------- StateSyncer thread
\* sync_state_to_backup: get_state_snapshot() and the 0x01 datagram
SyncSnapshot(r) ==
    /\ Serving(r) /\ s_pc[r] = "snapshot"
    /\ net' = net \cup {[tag |-> 1,
                         body |-> get_state_snapshot(tasks[r], pending_tasks[r],
                                                     workers[r])]}
    /\ s_pc' = [s_pc EXCEPT ![r] = "heartbeat"]
    /\ UNCHANGED <<store_vars, time, lb_vars, role, last_primary_heartbeat, alive, b_pc,
                   b_recv_start, h_tasks, d_vars, m_vars, u_pc, now, next_uuid, sent,
                   ts_log, aux_vars>>

\* sync_state_to_backup: the 0x02 datagram, then sleep(SYNC_INTERVAL)
SyncHeartbeat(r) ==
    /\ Serving(r) /\ s_pc[r] = "heartbeat"
    /\ net' = net \cup {[tag |-> 2, body |-> [ts |-> now]]}
    /\ s_pc' = [s_pc EXCEPT ![r] = "snapshot"]
    /\ UNCHANGED <<store_vars, time, lb_vars, role, last_primary_heartbeat, alive, b_pc,
                   b_recv_start, h_tasks, d_vars, m_vars, u_pc, now, next_uuid, sent,
                   ts_log, aux_vars>>

\* -------------------------------------------------- BackupListener thread
Listening(r) == alive[r] /\ role[r] = "BACKUP"

\* mutant: the backup takes over when exactly PRIMARY_TIMEOUT has elapsed
PrimaryLost_at_timeout(last, t) == t - last >= PRIMARY_TIMEOUT

\* mutant: the backup takes over at its first check, heartbeat or not
PrimaryLost_always(last, t) == TRUE

\* mutant: the operands of the subtraction swapped
PrimaryLost_swapped(last, t) == last - t > PRIMARY_TIMEOUT

\* listen_for_sync: time.time() - self.last_primary_heartbeat > PRIMARY_TIMEOUT
PrimaryLost(last, t) == t - last > PRIMARY_TIMEOUT

\* listen_for_sync: the check at the top of the loop; promote_to_primary and
\* start_primary_services when the primary is lost, else settimeout and recvfrom
BackupCheck(r) ==
    /\ Listening(r) /\ b_pc[r] = "check"
    /\ IF PrimaryLost(last_primary_heartbeat[r], now)
       THEN /\ role' = [role EXCEPT ![r] = "PRIMARY"]
            /\ b_pc' = [b_pc EXCEPT ![r] = "done"]
            /\ d_pc' = [d_pc EXCEPT ![r] = "get_next_task"]
            /\ m_pc' = [m_pc EXCEPT ![r] = "sleep"]
            /\ m_wake' = [m_wake EXCEPT ![r] = now + WORKER_TIMEOUT]
            /\ u_pc' = [u_pc EXCEPT ![r] = "recvfrom"]
            /\ s_pc' = [s_pc EXCEPT ![r] = "snapshot"]
            /\ UNCHANGED b_recv_start
       ELSE /\ b_pc' = [b_pc EXCEPT ![r] = "recvfrom"]
            /\ b_recv_start' = [b_recv_start EXCEPT ![r] = now]
            /\ UNCHANGED <<role, d_pc, m_pc, m_wake, u_pc, s_pc>>
    /\ UNCHANGED <<store_vars, time, lb_vars, last_primary_heartbeat, alive, net, h_tasks,
                   d_task, d_worker, m_active, now, next_uuid, sent, ts_log, aux_vars>>

\* load_state_snapshot reaches the end of its try block on this body: every
\* assignment and set_time have run
LoadsInFull(body) ==
    /\ body.kind = "object"
    /\ {"tasks", "pending_tasks", "workers"} \subseteq DOMAIN body.obj
    /\ \A i \in DOMAIN body.obj.tasks : ValidTaskData(body.obj.tasks[i])

\* listen_for_sync: recvfrom returns a datagram
BackupRecv(r) ==
    /\ Listening(r) /\ b_pc[r] = "recvfrom"
    /\ \E dgram \in net :
         /\ net' = net \ {dgram}
         /\ IF dgram.tag = 1
            THEN LET s == load_state_snapshot(tasks[r], pending_tasks[r], workers[r],
                                              time[r], dgram.body) IN
                 /\ tasks' = [tasks EXCEPT ![r] = s.tasks]
                 /\ pending_tasks' = [pending_tasks EXCEPT ![r] = s.pending_tasks]
                 /\ workers' = [workers EXCEPT ![r] = s.workers]
                 /\ time' = [time EXCEPT ![r] = s.time]
                 /\ b_pc' = [b_pc EXCEPT ![r] =
                                IF s.raised = None THEN "check" ELSE "crashed"]
                 /\ b_loaded' = [b_loaded EXCEPT ![r] =
                                    IF LoadsInFull(dgram.body)
                                    THEN [kind |-> "snapshot", body |-> dgram.body]
                                    ELSE @]
                 /\ UNCHANGED last_primary_heartbeat
            ELSE /\ IF dgram.tag = 2
                    THEN last_primary_heartbeat' =
                             [last_primary_heartbeat EXCEPT ![r] = now]
                    ELSE UNCHANGED last_primary_heartbeat
                 /\ b_pc' = [b_pc EXCEPT ![r] = "check"]
                 /\ UNCHANGED <<store_vars, time, b_loaded>>
    /\ UNCHANGED <<lb_vars, role, alive, s_pc, b_recv_start, h_tasks, d_vars, m_vars,
                   u_pc, now, next_uuid, sent, ts_log, lb_log, h_last, u_log,
                   lk>>

RecvTimedOut(r) == now - b_recv_start[r] >= PRIMARY_TIMEOUT

\* listen_for_sync: recvfrom raises socket.timeout; continue
BackupTimeout(r) ==
    /\ Listening(r) /\ b_pc[r] = "recvfrom" /\ RecvTimedOut(r)
    /\ b_pc' = [b_pc EXCEPT ![r] = "check"]
    /\ UNCHANGED <<store_vars, time, lb_vars, role, last_primary_heartbeat, alive, s_pc,
                   b_recv_start, net, h_tasks, d_vars, m_vars, u_pc, now, next_uuid,
                   sent, ts_log, aux_vars>>

\* ----------------------------------------------------------- environment
\* the primary process is killed
Kill(r) ==
    /\ alive[r] /\ role[r] = "PRIMARY" /\ r = "P"
    /\ now + 2 * PRIMARY_TIMEOUT <= MaxReplTime
    /\ alive' = [alive EXCEPT ![r] = FALSE]
    /\ UNCHANGED <<store_vars, time, lb_vars, role, last_primary_heartbeat, s_pc, b_pc,
                   b_recv_start, net, h_tasks, d_vars, m_vars, u_pc, now, next_uuid,
                   sent, ts_log, aux_vars>>

\* a multicast datagram is lost
NetLose ==
    /\ \E dgram \in net : net' = net \ {dgram}
    /\ UNCHANGED <<store_vars, time, lb_vars, role, last_primary_heartbeat, alive, s_pc,
                   b_pc, b_recv_start, h_tasks, d_vars, m_vars, u_pc, now, next_uuid,
                   sent, ts_log, aux_vars>>

\* the backup listener has a step to take at the current instant
BackupDue(r) ==
    Listening(r) /\ (b_pc[r] = "check" \/ (b_pc[r] = "recvfrom" /\ RecvTimedOut(r)))

\* the wall clock of the replication runs: a datagram is delivered or lost within
\* one step of the clock, and a due timeout fires before the clock moves on
TimedTick ==
    /\ net = {}
    /\ \A r \in Replicas : ~BackupDue(r)
    /\ now + TickStep <= MaxReplTime
    /\ now' = now + TickStep
    /\ UNCHANGED <<store_vars, time, lb_vars, repl_vars, h_tasks, d_vars, m_vars, u_pc,
                   next_uuid, sent, ts_log, aux_vars>>

\* --------------------------------- a primary and a backup: the failover
InitFailover == InitWith({"P", "B"})

NextFailover ==
    \/ \E r \in Replicas :
        \/ HandleSubmitCreate(r)
        \/ HandleSubmitAdd(r)
        \/ SyncSnapshot(r)
        \/ SyncHeartbeat(r)
        \/ BackupCheck(r)
        \/ BackupRecv(r)
        \/ BackupTimeout(r)
        \/ Kill(r)
    \/ NetLose
    \/ TimedTick

SpecFailover == InitFailover /\ [][NextFailover]_vars

\* the listener thread, the network and the clock keep running
FairFailover ==
    /\ \A r \in Replicas : WF_vars(BackupCheck(r))
    /\ \A r \in Replicas : WF_vars(BackupRecv(r))
    /\ \A r \in Replicas : WF_vars(BackupTimeout(r))
    /\ WF_vars(TimedTick)

FairSpecFailover == SpecFailover /\ FairFailover

\* --------------------- a primary and a backup: the snapshot, as a function
\* State Store values the snapshot is taken of: up to MaxSnapTasks tasks in the
\* shapes the orchestrator produces, any queue over their ids, up to one worker
TaskShapes ==
    {[status |-> "PENDING", assigned_worker |-> None, result |-> None],
     [status |-> "IN_PROGRESS", assigned_worker |-> None, result |-> None],
     [status |-> "IN_PROGRESS", assigned_worker |-> WorkerIds[1], result |-> None],
     [status |-> "COMPLETED", assigned_worker |-> WorkerIds[1], result |-> "r1"]}

SnapTask(id) ==
    {[id |-> id, client_id |-> "user1", status |-> sh.status, data |-> "d1",
      lamport_ts |-> ts, assigned_worker |-> sh.assigned_worker, result |-> sh.result] :
        sh \in TaskShapes, ts \in 1..MaxSnapTasks}

RECURSIVE SnapTaskTables(_)
SnapTaskTables(n) ==
    IF n = 0 THEN {<<>>}
    ELSE LET prev == SnapTaskTables(n - 1) IN
         prev \cup {Append(T, t) : T \in {x \in prev : Len(x) = n - 1}, t \in SnapTask(n)}

\* the sequences without repetition over the set S
RECURSIVE Arrangements(_)
Arrangements(S) ==
    {<<>>} \cup UNION {{<<x>> \o q : q \in Arrangements(S \ {x})} : x \in S}

\* the entry update_worker_heartbeat stores (a tuple addr), or the same entry as a
\* promoted backup holds it after loading a snapshot (a list addr)
SnapWorkerTables ==
    {<<>>} \cup {<<[id |-> WorkerIds[1], addr |-> [AddrOf(WorkerIds[1]) EXCEPT !.py = py],
                   last_heartbeat |-> 0]>> : py \in {"tuple", "list"}}

\* what the backup holds before the snapshot arrives: nothing, or an older state
PriorStates ==
    {[tasks |-> <<>>, pending_tasks |-> <<>>, workers |-> <<>>, time |-> 0],
     [tasks |-> <<[Task(MaxSnapTasks + 1, "user1", "d1", MaxSnapTasks + 1)
                     EXCEPT !.status = "IN_PROGRESS"]>>,
      pending_tasks |-> <<MaxSnapTasks + 1>>,
      workers |-> <<[id |-> WorkerIds[2], addr |-> JsonAddr(AddrOf(WorkerIds[2])),
                     last_heartbeat |-> 0]>>,
      time |-> MaxSnapTasks + 1]}

InitSnap ==
    /\ \E T \in SnapTaskTables(MaxSnapTasks), W \in SnapWorkerTables, prior \in PriorStates :
         \E Q \in Arrangements(Keys(T)) :
            /\ tasks = [r \in Replicas |-> IF r = "P" THEN T ELSE prior.tasks]
            /\ pending_tasks = [r \in Replicas |-> IF r = "P" THEN Q ELSE prior.pending_tasks]
            /\ workers = [r \in Replicas |-> IF r = "P" THEN W ELSE prior.workers]
            /\ time = [r \in Replicas |-> IF r = "P" THEN MaxTs(T, 1, 0) ELSE prior.time]
    /\ lb_workers = [r \in Replicas |-> <<>>]
    /\ current_index = [r \in Replicas |-> 0]
    /\ role = [r \in Replicas |-> IF r = "B" THEN "BACKUP" ELSE "PRIMARY"]
    /\ last_primary_heartbeat = [r \in Replicas |-> 0]
    /\ alive = [r \in Replicas |-> TRUE]
    /\ h_tasks = [r \in Replicas |-> {}]
    /\ d_pc = [r \in Replicas |-> "get_next_task"]
    /\ d_task = [r \in Replicas |-> NoTask]
    /\ d_worker = [r \in Replicas |-> None]
    /\ m_pc = [r \in Replicas |-> "sleep"]
    /\ m_active = [r \in Replicas |-> <<>>]
    /\ m_wake = [r \in Replicas |-> WORKER_TIMEOUT]
    /\ u_pc = [r \in Replicas |-> "recvfrom"]
    /\ s_pc = [r \in Replicas |-> "snapshot"]
    /\ b_pc = [r \in Replicas |-> "check"]
    /\ b_recv_start = [r \in Replicas |-> 0]
    /\ net = {}
    /\ now = 0
    /\ next_uuid = 1
    /\ sent = {}
    /\ ts_log = [r \in Replicas |-> <<>>]
    /\ AuxInit

\* bodies of 0x01 datagrams that are not what get_state_snapshot produces
CorruptBodies ==
    LET t == Task(1, "user1", "d1", 1) IN
    {[kind |-> "not_utf8"], [kind |-> "not_json"], [kind |-> "not_object"],
     [kind |-> "object", obj |-> [pending_tasks |-> <<1>>, workers |-> <<>>]],
     [kind |-> "object", obj |-> [tasks |-> <<t>>, workers |-> <<>>]],
     [kind |-> "object", obj |-> [tasks |-> <<t>>, pending_tasks |-> <<1>>]],
     [kind |-> "object", obj |-> [tasks |-> <<[id |-> 1]>>, pending_tasks |-> <<1>>,
                                  workers |-> <<>>]],
     [kind |-> "object", obj |-> [tasks |-> <<t @@ [priority |-> 1]>>,
                                  pending_tasks |-> <<1>>, workers |-> <<>>]]}

\* a 0x01 datagram with such a body reaches the multicast group
NetCorrupt ==
    /\ net = {}
    /\ \E body \in CorruptBodies : net' = {[tag |-> 1, body |-> body]}
    /\ UNCHANGED <<store_vars, time, lb_vars, role, last_primary_heartbeat, alive, s_pc,
                   b_pc, b_recv_start, h_tasks, d_vars, m_vars, u_pc, now, next_uuid,
                   sent, ts_log, aux_vars>>

\* one datagram is in flight at a time
NextSnap ==
    \/ net = {} /\ SyncSnapshot("P")
    \/ net = {} /\ SyncHeartbeat("P")
    \/ NetCorrupt
    \/ BackupCheck("B")
    \/ BackupRecv("B")

SpecSnap == InitSnap /\ [][NextSnap]_vars

\* ------------------------- task_complete datagrams, as calls of a function
\* the results a task_complete datagram may carry
CompletionResults == {"r1", "r2"}
\* the task ids it may name: those of the table, and one that no table holds
CompletionIds == 1..(MaxSnapTasks + 1)

\* listen_for_workers handles {type: task_complete, task_id, result}:
\* update_task_status(task_id, "COMPLETED", result)
StatusDeliver ==
    /\ Len(u_log) < MaxDeliveries
    /\ \E task_id \in CompletionIds, result \in CompletionResults :
         /\ tasks' = [tasks EXCEPT !["P"] =
                         update_task_status(@, task_id, "COMPLETED", result)]
         /\ u_log' = Append(u_log, [task_id |-> task_id, result |-> result])
    /\ UNCHANGED <<pending_tasks, workers, time, lb_vars, repl_vars, h_tasks, d_vars,
                   m_vars, u_pc, now, next_uuid, sent, ts_log, lb_log, h_last, b_loaded,
                   lk>>

NextStatus == StatusDeliver

SpecStatus == InitSnap /\ [][NextStatus]_vars

\* ------ the failover when the multicast group also carries foreign datagrams
NextFailoverCorrupt == NextFailover \/ NetCorrupt

SpecFailoverCorrupt == InitFailover /\ [][NextFailoverCorrupt]_vars

\* ------------------------------------ the load balancer, as a function
\* a fixed non-empty set of active workers is in the balancer, the rotation at any
\* index update_workers can leave
InitLB ==
    /\ \E S \in (SUBSET {WorkerIds[i] : i \in DOMAIN WorkerIds}) \ {{}} :
         \E idx \in 0..(Cardinality(S) - 1) :
            /\ lb_workers = [r \in Replicas |-> IF r = "P" THEN SortedSeqOf(S) ELSE <<>>]
            /\ current_index = [r \in Replicas |-> IF r = "P" THEN idx ELSE 0]
    /\ tasks = [r \in Replicas |-> <<>>]
    /\ pending_tasks = [r \in Replicas |-> <<>>]
    /\ workers = [r \in Replicas |-> <<>>]
    /\ time = [r \in Replicas |-> 0]
    /\ role = [r \in Replicas |-> IF r = "B" THEN "BACKUP" ELSE "PRIMARY"]
    /\ last_primary_heartbeat = [r \in Replicas |-> 0]
    /\ alive = [r \in Replicas |-> r = "P"]
    /\ h_tasks = [r \in Replicas |-> {}]
    /\ d_pc = [r \in Replicas |-> "get_next_task"]
    /\ d_task = [r \in Replicas |-> NoTask]
    /\ d_worker = [r \in Replicas |-> None]
    /\ m_pc = [r \in Replicas |-> "sleep"]
    /\ m_active = [r \in Replicas |-> <<>>]
    /\ m_wake = [r \in Replicas |-> WORKER_TIMEOUT]
    /\ u_pc = [r \in Replicas |-> "recvfrom"]
    /\ s_pc = [r \in Replicas |-> "snapshot"]
    /\ b_pc = [r \in Replicas |-> "check"]
    /\ b_recv_start = [r \in Replicas |-> 0]
    /\ net = {}
    /\ now = 0
    /\ next_uuid = 1
    /\ sent = {}
    /\ ts_log = [r \in Replicas |-> <<>>]
    /\ AuxInit

\* one more get_next_worker() call
LBGetNextWorker ==
    /\ Len(lb_log) < MaxCalls
    /\ LET b == get_next_worker(lb_workers["P"], current_index["P"]) IN
         /\ current_index' = [current_index EXCEPT !["P"] = b.current_index]
         /\ lb_log' = Append(lb_log, b.worker)
    /\ UNCHANGED <<store_vars, time, lb_workers, repl_vars, h_tasks, d_vars, m_vars, u_pc,
                   now, next_uuid, sent, ts_log, h_last, b_loaded, u_log, lk>>

\* update_workers() called again with the same set, listed in any order
LBUpdateWorkers ==
    /\ \E l \in {q \in Arrangements(Range(lb_workers["P"])) :
                    Len(q) = Len(lb_workers["P"])} :
         LET b == update_workers(current_index["P"], l) IN
         /\ lb_workers' = [lb_workers EXCEPT !["P"] = b.workers]
         /\ current_index' = [current_index EXCEPT !["P"] = b.current_index]
    /\ UNCHANGED <<store_vars, time, repl_vars, h_tasks, d_vars, m_vars, u_pc, now,
                   next_uuid, sent, ts_log, aux_vars>>

NextLB == LBGetNextWorker \/ LBUpdateWorkers

SpecLB == InitLB /\ [][NextLB]_vars

\* --------------------------- the load balancer from its construction on
\* the first update_workers(L) on the fresh balancer, L in any order
LBFirstUpdate ==
    /\ lb_workers["P"] = <<>>
    /\ \E S \in (SUBSET {WorkerIds[i] : i \in DOMAIN WorkerIds}) \ {{}} :
         \E l \in {q \in Arrangements(S) : Len(q) = Cardinality(S)} :
            LET b == update_workers(current_index["P"], l) IN
            /\ lb_workers' = [lb_workers EXCEPT !["P"] = b.workers]
            /\ current_index' = [current_index EXCEPT !["P"] = b.current_index]
    /\ UNCHANGED <<store_vars, time, repl_vars, h_tasks, d_vars, m_vars, u_pc, now,
                   next_uuid, sent, ts_log, aux_vars>>

NextLBFresh == LBFirstUpdate \/ LBGetNextWorker

SpecLBFresh == Init /\ [][NextLBFresh]_vars

\* update_workers(l) with any list l of worker ids, the empty one included, in
\* any order; m_active holds the list passed, as active_workers does in
\* monitor_workers
LBUpdateAny ==
    /\ \E l \in Arrangements({WorkerIds[i] : i \in DOMAIN WorkerIds}) :
         LET b == update_workers(current_index["P"], l) IN
         /\ lb_workers' = [lb_workers EXCEPT !["P"] = b.workers]
         /\ current_index' = [current_index EXCEPT !["P"] = b.current_index]
         /\ m_active' = [m_active EXCEPT !["P"] = l]
    /\ UNCHANGED <<store_vars, time, repl_vars, h_tasks, d_vars, m_pc, m_wake, u_pc,
                   now, next_uuid, sent, ts_log, aux_vars>>

\* get_next_worker(), at most MaxAnyCalls times
LBGetNextWorkerAny == Len(lb_log) < MaxAnyCalls /\ LBGetNextWorker

NextLBAny == LBUpdateAny \/ LBGetNextWorkerAny

SpecLBAny == Init /\ [][NextLBAny]_vars

\* ------------------------------------------ the three mutexes, per thread
\* "state": StateManager.lock, "clock": LamportClock._lock,
\* "lb": RoundRobinLoadBalancer.lock
Acquire(l) == [a |-> "acquire", l |-> l]
Release(l) == [a |-> "release", l |-> l]
With(l) == <<Acquire(l), Release(l)>>

\* the acquisitions and releases an operation makes, in order
LockPlan(op) ==
    IF op \in {"increment"} THEN With("clock")
    ELSE IF op \in {"update_workers", "get_next_worker"} THEN With("lb")
    ELSE IF op = "load_state_snapshot"
         THEN <<Acquire("state"), Acquire("clock"), Release("clock"), Release("state")>>
    ELSE With("state")

\* the operations each thread calls; load_state_snapshot_rejected is a load that
\* raises before clock.set_time
ThreadOps(t) ==
    IF t = "Client" THEN {"increment", "add_task", "get_task_status"}
    ELSE IF t = "WorkerListener" THEN {"update_worker_heartbeat", "update_task_status"}
    ELSE IF t = "TaskDistributor" THEN {"get_next_task", "get_next_worker", "add_task"}
    ELSE IF t = "WorkerMonitor" THEN {"check_dead_workers", "update_workers"}
    ELSE IF t = "StateSyncer" THEN {"get_state_snapshot"}
    ELSE {"load_state_snapshot", "load_state_snapshot_rejected"}

\* the BackupListener runs on a backup, the other threads once it is primary
RunsNow(t) == IF t = "BackupListener" THEN Listening("B") ELSE Serving("B")

Holders(l) == {t \in Threads : \E i \in DOMAIN lk[t].held : lk[t].held[i] = l}

lock_frame == <<store_vars, time, lb_vars, last_primary_heartbeat, alive, s_pc, b_pc,
                b_recv_start, net, h_tasks, d_vars, m_vars, u_pc, now, next_uuid, sent,
                ts_log, lb_log, h_last, b_loaded, u_log>>

\* a thread calls one of its operations
LockBegin(t) ==
    /\ RunsNow(t) /\ lk[t].op = "idle"
    /\ \E op \in ThreadOps(t) : lk' = [lk EXCEPT ![t] = [op |-> op, pc |-> 1, held |-> <<>>]]
    /\ UNCHANGED <<role, lock_frame>>

\* the next "with lock:" entry (it blocks while another thread holds the mutex) or
\* exit of the operation the thread is in
LockStep(t) ==
    /\ lk[t].op # "idle"
    /\ LET plan == LockPlan(lk[t].op)
           e == plan[lk[t].pc]
           held == IF e.a = "acquire" THEN Append(lk[t].held, e.l)
                   ELSE SubSeq(lk[t].held, 1, Len(lk[t].held) - 1) IN
       /\ e.a = "acquire" => Holders(e.l) = {}
       /\ lk' = [lk EXCEPT ![t] =
                    IF lk[t].pc = Len(plan) THEN [op |-> "idle", pc |-> 0, held |-> held]
                    ELSE [op |-> lk[t].op, pc |-> lk[t].pc + 1, held |-> held]]
    /\ UNCHANGED <<role, lock_frame>>

\* listen_for_sync leaves its loop through promote_to_primary
LockPromote ==
    /\ Listening("B") /\ lk["BackupListener"].op = "idle"
    /\ role' = [role EXCEPT !["B"] = "PRIMARY"]
    /\ UNCHANGED <<lk, lock_frame>>

InitLocks == InitWith({"B"})

NextLocks ==
    \/ \E t \in Threads : LockBegin(t) \/ LockStep(t)
    \/ LockPromote

SpecLocks == InitLocks /\ [][NextLocks]_vars

\* -------------------------------------- the client endpoint of a primary
NextClient ==
    \E r \in {"P"} :
        \/ HandleReply(r)
        \/ HandleSubmitCreate(r)
        \/ HandleSubmitAdd(r)

SpecClient == Init /\ [][NextClient]_vars

\* ------------------------------------------- a primary orchestrator alone
Next ==
    \/ \E r \in {"P"} :
        \/ HandleSubmitCreate(r)
        \/ HandleSubmitAdd(r)
        \/ UdpHeartbeat(r)
        \/ UdpTaskComplete(r)
        \/ UdpMalformed(r)
        \/ MonitorCheck(r)
        \/ MonitorUpdate(r)
        \/ DistGetNextTask(r)
        \/ DistGetNextWorker(r)
        \/ DistNoWorker(r)
        \/ DistLookup(r)
        \/ DistConnect(r)
        \/ DistSend(r)
        \/ DistExcept(r)
    \/ Tick

Spec == Init /\ [][Next]_vars

\* ================================================================= claims
Count(seq, x) == Cardinality({i \in DOMAIN seq : seq[i] = x})
TaskSet(r) == Range(tasks[r])

\* C1: every task whose id is in the pending queue has status PENDING and
\* assigned_worker = None, in every reachable state of the orchestrator.
C1_QueuedTasksArePending ==
    \A r \in Replicas : \A t \in TaskSet(r) :
        Count(pending_tasks[r], t.id) > 0 =>
            t.status = "PENDING" /\ t.assigned_worker = None

\* C2: every PENDING task with no assigned worker is in the pending queue exactly
\* once, and no task id occurs twice in the pending queue.
C2_PendingQueuedExactlyOnce ==
    \A r \in Replicas :
        /\ \A t \in TaskSet(r) :
              (t.status = "PENDING" /\ t.assigned_worker = None) =>
                  Count(pending_tasks[r], t.id) = 1
        /\ \A id \in TaskIds : Count(pending_tasks[r], id) <= 1

\* C2 witness: a task rescued from a dead worker (it had been sent) is PENDING and
\* back in the queue while another task is queued behind it.
C2_Witness ==
    /\ Len(pending_tasks["P"]) = 2
    /\ \E t \in TaskSet("P") :
          t.id \in sent /\ t.status = "PENDING" /\ Head(pending_tasks["P"]) = t.id

\* C3: every task with status IN_PROGRESS has a non-empty assigned_worker.
C3_InProgressHasWorker ==
    \A r \in Replicas : \A t \in TaskSet(r) :
        t.status = "IN_PROGRESS" => t.assigned_worker # None

\* C4: the lamport_ts values handed out by one orchestrator are strictly increasing
\* in the order of the increment() calls, and no two tasks it created share one,
\* also when several client handlers run concurrently.
CreatedTasks(r) == TaskSet(r) \cup h_tasks[r]
C4_LamportStrictlyIncreasing ==
    \A r \in Replicas :
        /\ \A i, j \in DOMAIN ts_log[r] : i < j => ts_log[r][i] < ts_log[r][j]
        /\ \A t1, t2 \in CreatedTasks(r) :
              t1.id # t2.id => t1.lamport_ts # t2.lamport_ts

\* C4 witness: two handlers hold freshly stamped tasks at the same time.
C4_Witness ==
    /\ Cardinality(h_tasks["P"]) = 2
    /\ Len(ts_log["P"]) = 2

\* the step of the liveness monitor that runs check_dead_workers
IsMonitorCheckStep(r) == m_pc[r] = "sleep" /\ m_pc'[r] = "update_workers"
DeadBefore(r) == {w \in Range(workers[r]) : IsDead(w, now)}
HeldBy(r, worker_id) ==
    {t.id : t \in {x \in TaskSet(r) :
                      x.assigned_worker = worker_id /\ x.status = "IN_PROGRESS"}}
Positions(seq, S) == {i \in DOMAIN seq : seq[i] \in S}
RescuedAt(r) == UNION {HeldBy(r, w.id) : w \in DeadBefore(r)}

\* C5 as stated: when the monitor's scan finds a worker's heartbeat older than
\* WORKER_TIMEOUT, the k tasks IN_PROGRESS on that worker are PENDING with no
\* assigned worker afterwards and their ids are the first k of the pending queue.
C5_RescuedOccupyHead ==
    [][\A r \in Replicas : IsMonitorCheckStep(r) =>
          \A w \in DeadBefore(r) :
              LET K == HeldBy(r, w.id) IN
              /\ \A t \in TaskSet(r)' : t.id \in K =>
                    t.status = "PENDING" /\ t.assigned_worker = None
              /\ Positions(pending_tasks'[r], K) = 1..Cardinality(K)]_vars

\* C5 amended: the k tasks are PENDING with no assigned worker, each is queued once,
\* contiguously, ahead of every id that was queued before the scan; the tasks of a
\* worker examined later lie ahead of those of a worker examined earlier, and the
\* tasks of all the workers the scan declares dead together occupy the head.
C5_RescuedAheadOfQueued ==
    [][\A r \in Replicas : IsMonitorCheckStep(r) =>
          /\ \A w \in DeadBefore(r) :
                LET K == HeldBy(r, w.id)
                    P == Positions(pending_tasks'[r], K) IN
                /\ \A t \in TaskSet(r)' : t.id \in K =>
                      t.status = "PENDING" /\ t.assigned_worker = None
                /\ Cardinality(P) = Cardinality(K)
                /\ \A i, j \in P : \A m \in i..j : m \in P
                /\ \A i \in P : i <= Len(pending_tasks'[r]) - Len(pending_tasks[r])
          /\ \A i, j \in DOMAIN workers[r] :
                (i < j /\ IsDead(workers[r][i], now) /\ IsDead(workers[r][j], now)) =>
                    \A p \in Positions(pending_tasks'[r], HeldBy(r, workers[r][j].id)) :
                    \A q \in Positions(pending_tasks'[r], HeldBy(r, workers[r][i].id)) :
                        p < q
          /\ Positions(pending_tasks'[r], RescuedAt(r)) = 1..Cardinality(RescuedAt(r))
          /\ SubSeq(pending_tasks'[r], Cardinality(RescuedAt(r)) + 1,
                    Len(pending_tasks'[r])) = pending_tasks[r]]_vars

\* C5 witness: the scan has just run and a task that had been sent to a worker is
\* PENDING again at the head of the queue, ahead of a task queued before the scan.
C5_Witness ==
    /\ m_pc["P"] = "update_workers"
    /\ Len(pending_tasks["P"]) = 2
    /\ \E t \in TaskSet("P") :
          /\ t.id \in sent /\ t.status = "PENDING"
          /\ Head(pending_tasks["P"]) = t.id
    /\ \E t \in TaskSet("P") :
          t.id \notin sent /\ pending_tasks["P"][2] = t.id

\* the step of the dispatcher that runs its except block
IsDistExceptStep(r) == d_pc[r] = "except" /\ d_pc'[r] = "get_next_task"

\* C9: when the dispatcher fails to deliver a dequeued task (connection refused, or
\* no entry for the chosen worker), the task ends with status PENDING,
\* assigned_worker = None and its id at the tail of the pending queue.
C9_FailedDispatchBackToPending ==
    [][\A r \in Replicas : IsDistExceptStep(r) =>
          /\ pending_tasks'[r] # <<>>
          /\ pending_tasks'[r][Len(pending_tasks'[r])] = d_task[r]
          /\ \A t \in TaskSet(r)' : t.id = d_task[r] =>
                t.status = "PENDING" /\ t.assigned_worker = None]_vars

\* C10: after any worker dispatch failure the dispatcher loop keeps running: the
\* thread is never ended by the failure and the failed task is put back.
C10_DispatcherSurvivesFailure ==
    \A r \in Replicas : d_pc[r] # "crashed"

\* C6: once the primary is killed, a running backup eventually sets its role to
\* PRIMARY and starts the primary services; it does so at the first check of its
\* loop made more than PRIMARY_TIMEOUT after the last heartbeat it received, which
\* comes at most one socket-read timeout after that moment.
C6_BackupPromotes ==
    /\ (~alive["P"]) ~> Serving("B")
    /\ [](\A r \in Replicas :
            (Listening(r) /\ b_pc[r] \in {"check", "recvfrom"}) =>
                now - last_primary_heartbeat[r] <= PRIMARY_TIMEOUT + PRIMARY_TIMEOUT)
    /\ [][\A r \in Replicas :
            (/\ Listening(r) /\ b_pc[r] = "check" /\ b_pc'[r] # "check"
             /\ now - last_primary_heartbeat[r] > PRIMARY_TIMEOUT) =>
                (role'[r] = "PRIMARY" /\ b_pc'[r] = "done")]_vars

\* C6 witness: the primary is dead and the backup has promoted itself, one
\* socket-read timeout after the heartbeat timeout ran out.
C6_Witness ==
    /\ ~alive["P"] /\ Serving("B") /\ b_pc["B"] = "done"
    /\ now - last_primary_heartbeat["B"] = PRIMARY_TIMEOUT + PRIMARY_TIMEOUT
    /\ last_primary_heartbeat["B"] > 0

\* the backup's listener takes the 0x01 datagram with this body off the network and
\* load_state_snapshot runs on it
IsLoadStep(body) ==
    /\ Listening("B") /\ b_pc["B"] = "recvfrom"
    /\ [tag |-> 1, body |-> body] \in net
    /\ net' = net \ {[tag |-> 1, body |-> body]}
    /\ b_pc'["B"] # "recvfrom"

MaxLamportTs(T) ==
    IF T = <<>> THEN 0
    ELSE CHOOSE m \in {T[i].lamport_ts : i \in DOMAIN T} :
             \A i \in DOMAIN T : T[i].lamport_ts <= m

SnapshotOfPrimary == get_state_snapshot(tasks["P"], pending_tasks["P"], workers["P"])

\* C7: for every State Store state S, loading get_state_snapshot(S) on an
\* orchestrator in any prior state yields a task table, a pending queue and a worker
\* table equal to S, and sets the clock to the maximum lamport_ts over the tasks of S
\* (0 when S has no tasks).
C7_RoundTripReproducesState ==
    [][IsLoadStep(SnapshotOfPrimary) =>
          /\ tasks'["B"] = tasks["P"]
          /\ pending_tasks'["B"] = pending_tasks["P"]
          /\ workers'["B"] = workers["P"]
          /\ time'["B"] = MaxLamportTs(tasks["P"])]_vars

\* what the round trip does reproduce: everything but the type of a worker's addr,
\* which is a list after the load whatever it was in S
RoundTripUpToAddrType ==
    [][IsLoadStep(SnapshotOfPrimary) =>
          /\ tasks'["B"] = tasks["P"]
          /\ pending_tasks'["B"] = pending_tasks["P"]
          /\ time'["B"] = MaxLamportTs(tasks["P"])
          /\ Len(workers'["B"]) = Len(workers["P"])
          /\ \A i \in DOMAIN workers["P"] :
                /\ workers'["B"][i].id = workers["P"][i].id
                /\ workers'["B"][i].last_heartbeat = workers["P"][i].last_heartbeat
                /\ workers'["B"][i].addr.host = workers["P"][i].addr.host
                /\ workers'["B"][i].addr.port = workers["P"][i].addr.port
                /\ workers'["B"][i].addr.py = "list"]_vars

\* C8: when load_state_snapshot is given a malformed or incomplete snapshot, the task
\* table, the pending queue, the worker table and the Lamport clock are all left
\* exactly as they were before the call.
C8_MalformedSnapshotLeavesState ==
    [][\A body \in CorruptBodies :
          IsLoadStep(body) =>
              /\ tasks'["B"] = tasks["B"]
              /\ pending_tasks'["B"] = pending_tasks["B"]
              /\ workers'["B"] = workers["B"]
              /\ time'["B"] = time["B"]]_vars

\* how often w occurs among the calls i..j of the log
Returned(w, i, j) == Cardinality({k \in i..j : lb_log[k] = w})

\* C11: with a fixed set of N >= 1 workers in the balancer (update_workers may be
\* called again with the same set), among any K >= N consecutive get_next_worker
\* calls every worker is returned floor(K/N) or ceil(K/N) times.
C11_RoundRobinIsFair ==
    LET N == Len(lb_workers["P"]) IN
    \A i, j \in DOMAIN lb_log :
        LET K == j - i + 1 IN
        K >= N =>
            \A w \in Range(lb_workers["P"]) :
                Returned(w, i, j) \in {K \div N, (K + N - 1) \div N}

\* C11 witness: three workers, four calls made: one worker was returned twice, the
\* others once.
C11_Witness ==
    /\ Len(lb_workers["P"]) = 3 /\ Len(lb_log) = 4
    /\ \E w \in Range(lb_workers["P"]) : Returned(w, 1, 4) = 2
    /\ \A w \in Range(lb_workers["P"]) : Returned(w, 1, 4) >= 1

\* the WorkerListener handles the datagram {type: task_complete, task_id, result}
IsTaskCompleteStep(r, task_id, result) ==
    /\ Serving(r) /\ u_pc[r] = "recvfrom" /\ task_id \in sent
    /\ tasks'[r] = update_task_status(tasks[r], task_id, "COMPLETED", result)
    /\ UNCHANGED <<pending_tasks, workers, time, lb_vars, repl_vars, h_tasks, d_vars,
                   m_vars, u_pc, now, next_uuid, sent, ts_log, aux_vars>>

\* C12: delivering the same task_complete datagram a second time leaves the task
\* table, the pending queue and the worker table as the first delivery left them.
C12_CompletionIdempotent ==
    [][\A r \in Replicas : \A task_id \in TaskIds, result \in Results :
          IsTaskCompleteStep(r, task_id, result) =>
              /\ Get(tasks'[r], task_id).status = "COMPLETED"
              /\ Get(tasks'[r], task_id).result = result
              /\ update_task_status(tasks'[r], task_id, "COMPLETED", result) = tasks'[r]
              /\ pending_tasks'[r] = pending_tasks[r] /\ workers'[r] = workers[r]]_vars

\* C12 witness: a completion was delivered for a task a worker had received.
C12_Witness ==
    \E t \in TaskSet("P") : t.id \in sent /\ t.status = "COMPLETED" /\ t.result = "r1"

C14_AtMostOneMutexHeld ==
    \A t \in Threads : Len(lk[t].held) <= 1

\* what does hold of the mutexes: only load_state_snapshot nests, the clock's mutex
\* inside the State Store's; no mutex has two holders; some thread can always move
LockNestingIsOrdered ==
    /\ \A t \in Threads :
          Len(lk[t].held) <= 1 \/ (t = "BackupListener" /\ lk[t].held = <<"state", "clock">>)
    /\ \A l \in {"state", "clock", "lb"} : Cardinality(Holders(l)) <= 1
    /\ (\E t \in Threads : lk[t].op # "idle") => \E t \in Threads : ENABLED LockStep(t)

\* C15: after the worker UDP endpoint receives a malformed datagram the State Store
\* is unchanged and the receiver keeps processing later datagrams: its thread is
\* still at recvfrom, so a later heartbeat or task_complete is still handled.
C15_ReceiverSurvivesMalformed ==
    [][\A r \in Replicas : u_pc[r] = "recvfrom" => u_pc'[r] = "recvfrom"]_vars

\* the half of C15 that the code keeps: a malformed datagram changes nothing in the
\* State Store
MalformedLeavesStore ==
    [][\A r \in Replicas : u_pc'[r] # u_pc[r] => UNCHANGED <<store_vars, time>>]_vars

KnownTokens == {TokenOf(u, SECRET_KEY) : u \in Users}
\* the request answered in this step carried no token and was no login, or carried
\* a token of no known user
IsUnauthenticatedStep(r) ==
    /\ h_last'[r] # h_last[r]
    /\ \/ h_last'[r].token = NoToken /\ h_last'[r].action # "login"
       \/ h_last'[r].token # NoToken /\ h_last'[r].token \notin KnownTokens

\* C16: a request other than login without a token, or any request whose token
\* matches no known user, gets an error reply and leaves the task table, the
\* pending queue, the worker table and the Lamport clock unchanged; only a request
\* with a valid token creates a task.
C16_UnauthenticatedChangesNothing ==
    /\ [][\A r \in Replicas : IsUnauthenticatedStep(r) =>
            /\ h_last'[r].reply \in {"error: Autenticacao necessaria",
                                     "error: Token invalido ou expirado"}
            /\ h_last'[r].token = NoToken <=>
                   h_last'[r].reply = "error: Autenticacao necessaria"
            /\ UNCHANGED <<store_vars, time, h_tasks, next_uuid>>]_vars
    /\ [][\A r \in Replicas :
            (h_tasks'[r] # h_tasks[r] \/ tasks'[r] # tasks[r]) =>
                /\ h_last'[r] = h_last[r]
                /\ \A t \in CreatedTasks(r)' : t.client_id \in Users]_vars

\* C16 witness: a task submitted with a valid token is in the table and the last
\* request answered carried a forged token and got the error.
C16_Witness ==
    /\ tasks["P"] # <<>>
    /\ h_last["P"].token = TokenOf("mallory", SECRET_KEY)
    /\ h_last["P"].action = "submit_task"
    /\ h_last["P"].reply = "error: Token invalido ou expirado"

\* the dispatcher's get_next_task call returns a task in this step
IsDequeueStep(r) == d_pc[r] = "get_next_task" /\ d_pc'[r] = "get_next_worker"

\* what any reader holding the State Store lock may see of replica r: no task of
\* the table is PENDING while its id is missing from the queue
NoPendingOutsideQueue(r) ==
    \A i \in 1..Len(tasks[r]) :
        tasks[r][i].status = "PENDING" => tasks[r][i].id \in Range(pending_tasks[r])

\* C17: get_next_task on a non-empty queue removes the head id and sets that
\* task IN_PROGRESS in one step, so no state a snapshot, a status query or a
\* liveness scan can read shows a task dequeued but still PENDING; on an empty
\* queue it returns no task and changes nothing.
C17_DequeueIsAtomic ==
    /\ [](\A r \in Replicas : NoPendingOutsideQueue(r))
    /\ [][\A r \in Replicas :
            /\ IsDequeueStep(r) =>
                 /\ pending_tasks[r] # <<>>
                 /\ pending_tasks'[r] = Tail(pending_tasks[r])
                 /\ d_task'[r] = Head(pending_tasks[r])
                 /\ tasks'[r] = Put(tasks[r], [Get(tasks[r], Head(pending_tasks[r]))
                                                  EXCEPT !.status = "IN_PROGRESS"])
                 /\ UNCHANGED <<workers, time>>
            /\ Len(pending_tasks'[r]) < Len(pending_tasks[r]) => IsDequeueStep(r)
            /\ (d_pc[r] = "get_next_task" /\ pending_tasks[r] = <<>>) =>
                 /\ d_pc'[r] = "get_next_task" /\ d_task'[r] = d_task[r]
                 /\ DistGetNextTask(r) => UNCHANGED vars]_vars

\* C17 witness: the dispatcher holds a dequeued task, IN_PROGRESS in the table,
\* while another task is still queued.
C17_Witness ==
    /\ d_pc["P"] = "get_next_worker"
    /\ d_task["P"] # NoTask
    /\ Get(tasks["P"], d_task["P"]).status = "IN_PROGRESS"
    /\ d_task["P"] \notin Range(pending_tasks["P"])
    /\ pending_tasks["P"] # <<>>

\* the monitor's check_dead_workers call happens in this step
IsScanStep(r) == m_pc[r] = "sleep" /\ m_pc'[r] = "update_workers"

\* the workers of r whose last_heartbeat is older than WORKER_TIMEOUT
Expired(r) ==
    {w \in Keys(workers[r]) : now - Get(workers[r], w).last_heartbeat > WORKER_TIMEOUT}

\* the ids of the tasks of r that are IN_PROGRESS on an expired worker
Orphans(r) ==
    {t.id : t \in {u \in TaskSet(r) :
                     u.status = "IN_PROGRESS" /\ u.assigned_worker \in Expired(r)}}

\* C18: check_dead_workers removes exactly the workers whose last_heartbeat is
\* older than WORKER_TIMEOUT and returns exactly the remaining ids; exactly the
\* tasks IN_PROGRESS on a removed worker are reset to PENDING, unassigned and
\* prepended; every other task and the order of the ids queued before are
\* unchanged.
C18_ScanRemovesExactlyExpired ==
    [][\A r \in Replicas : IsScanStep(r) =>
        LET n == Cardinality(Orphans(r)) IN
        /\ workers'[r] = SelectSeq(workers[r], LAMBDA w : w.id \notin Expired(r))
        /\ m_active'[r] = KeySeq(workers'[r])
        /\ Len(tasks'[r]) = Len(tasks[r])
        /\ \A i \in 1..Len(tasks[r]) :
              tasks'[r][i] = IF tasks[r][i].id \in Orphans(r)
                             THEN [tasks[r][i] EXCEPT !.status = "PENDING",
                                                       !.assigned_worker = None]
                             ELSE tasks[r][i]
        /\ Len(pending_tasks'[r]) = n + Len(pending_tasks[r])
        /\ {pending_tasks'[r][i] : i \in 1..n} = Orphans(r)
        /\ \A i \in 1..Len(pending_tasks[r]) :
              pending_tasks'[r][n + i] = pending_tasks[r][i]
        /\ time'[r] = time[r]]_vars

\* C18 witness: the scan has just removed one of two workers; a task that had
\* been sent to the removed worker is PENDING, unassigned and at the head of the
\* queue, and a COMPLETED task of the removed worker is still COMPLETED.
C18_Witness ==
    /\ m_pc["P"] = "update_workers"
    /\ Len(workers["P"]) = 1
    /\ m_active["P"] = KeySeq(workers["P"])
    /\ \E t \in TaskSet("P") :
          /\ t.id \in sent /\ t.status = "PENDING" /\ t.assigned_worker = None
          /\ Head(pending_tasks["P"]) = t.id
    /\ \E t \in TaskSet("P") :
          /\ t.status = "COMPLETED"
          /\ t.assigned_worker \notin Keys(workers["P"]) \cup {None}

\* C19: a role changes only from BACKUP to PRIMARY and only at the timeout check of
\* the backup loop; a replica whose role is PRIMARY stays PRIMARY, its listener
\* loop does not run again, it loads no snapshot, and nothing demotes it, also when
\* the other replica is PRIMARY too.
C19_RoleOnlyPromotes ==
    [][\A r \in Replicas :
        /\ role'[r] # role[r] =>
              /\ role[r] = "BACKUP" /\ role'[r] = "PRIMARY"
              /\ b_pc[r] = "check" /\ b_pc'[r] = "done"
              /\ now - last_primary_heartbeat[r] > PRIMARY_TIMEOUT
        /\ role[r] = "PRIMARY" =>
              /\ role'[r] = "PRIMARY"
              /\ b_pc'[r] = b_pc[r]
              /\ b_loaded'[r] = b_loaded[r]
              /\ last_primary_heartbeat'[r] = last_primary_heartbeat[r]
              /\ (tasks'[r] # tasks[r] \/ pending_tasks'[r] # pending_tasks[r]) =>
                    net' = net]_vars

\* C19 witness: both replicas are PRIMARY and running (the heartbeats were lost, the
\* backup took over), and a snapshot is in flight that nobody will load.
C19_Witness ==
    /\ Serving("P") /\ Serving("B")
    /\ b_pc["B"] = "done" /\ b_loaded["B"] # NoSnapshot
    /\ \E dgram \in net : dgram.tag = 1

\* the backup r promotes itself in this step
IsPromotionStep(r) == role[r] = "BACKUP" /\ role'[r] = "PRIMARY"

\* promotion changes neither the State Store nor the clock
PromotionKeepsStore ==
    [][\A r \in Replicas : IsPromotionStep(r) =>
          /\ tasks'[r] = tasks[r] /\ pending_tasks'[r] = pending_tasks[r]
          /\ workers'[r] = workers[r] /\ time'[r] = time[r]]_vars

\* C20: when a backup promotes itself its task table, pending queue and worker
\* table are exactly those of the last snapshot it loaded successfully (the
\* promotion changes none of them, nor the clock), so a task_status query for a
\* task id of that snapshot returns the snapshot's fields.
C20_PromotedStoreIsLastSnapshot ==
    [][\A r \in Replicas : (IsPromotionStep(r) /\ b_loaded[r] # NoSnapshot) =>
          LET snap == b_loaded[r].body.obj IN
          /\ tasks'[r] = tasks[r] /\ pending_tasks'[r] = pending_tasks[r]
          /\ workers'[r] = workers[r] /\ time'[r] = time[r]
          /\ tasks'[r] = [i \in DOMAIN snap.tasks |-> TaskFromData(snap.tasks[i])]
          /\ pending_tasks'[r] = snap.pending_tasks
          /\ workers'[r] = snap.workers
          /\ \A i \in DOMAIN snap.tasks :
                handle_task_status(tasks'[r], snap.tasks[i].id)
                    = TaskFromData(snap.tasks[i])]_vars

\* C21: on a backup, and on the primary it becomes, the Lamport clock is at all
\* times >= the lamport_ts of every task of its task table, so a task submitted to
\* the new primary gets a lamport_ts greater than that of every task it holds.
C21_ClockCoversStoredTasks ==
    /\ [](\A t \in TaskSet("B") : time["B"] >= t.lamport_ts)
    /\ [][\A t \in h_tasks'["B"] \ h_tasks["B"] :
            \A u \in TaskSet("B") : t.lamport_ts > u.lamport_ts]_vars

\* the (task table, pending queue, worker table) of replica r
StoreOf(r) == <<tasks[r], pending_tasks[r], workers[r]>>

\* the stores the backup was started with: empty, or what an earlier snapshot left
PriorStores == {<<p.tasks, p.pending_tasks, p.workers>> : p \in PriorStates}

\* C22: at every moment the backup's (task table, pending queue, worker table) is
\* the state it started with or equal to the triple the primary's State Store held
\* at one single instant; it is never a mixture.  (The primary's store does not
\* change in SpecSnap: the instant is any.)
C22_BackupAtSnapshotBoundary ==
    StoreOf("B") \in PriorStores \cup {StoreOf("P")}

\* the same with the worker table compared as JSON carries it (addr as a list)
BackupAtBoundaryUpToAddrType ==
    StoreOf("B") \in PriorStores
                     \cup {<<tasks["P"], pending_tasks["P"], JsonWorkers(workers["P"])>>}

\* without foreign datagrams: the backup's store is empty or the content of the
\* one snapshot it loaded last, whatever was lost or reordered
BackupStoreIsOneSnapshot ==
    Listening("B") =>
        IF b_loaded["B"] = NoSnapshot THEN StoreOf("B") = <<<<>>, <<>>, <<>>>>
        ELSE LET snap == b_loaded["B"].body.obj IN
             StoreOf("B") = <<[i \in DOMAIN snap.tasks |-> TaskFromData(snap.tasks[i])],
                              snap.pending_tasks, snap.workers>>

\* no worker can have been declared dead so far (no heartbeat is older than
\* WORKER_TIMEOUT yet), so no task of the table is a rescued one
NoRescueYet == now <= WORKER_TIMEOUT

\* C23: the queue is FIFO for newly submitted tasks: of two tasks, neither of them
\* rescued, the one added to the State Store first (earlier in the table) is sent
\* to a worker first, also when the dispatcher found no worker for a while.
C23_SubmittedTasksSentInOrder ==
    \A r \in Replicas :
        NoRescueYet =>
            \A i, j \in DOMAIN tasks[r] :
                (i < j /\ tasks[r][j].id \in sent) => tasks[r][i].id \in sent

\* C24: in every reachable state of a primary or a backup, every id in the pending
\* queue is a key of the task table.
C24_QueuedIdsAreKnown ==
    \A r \in Replicas : Range(pending_tasks[r]) \subseteq Keys(tasks[r])

\* the get_next_worker() calls made while the balancer was still empty
EmptyCalls == Cardinality({j \in DOMAIN lb_log : lb_log[j] = None})

\* C25: after update_workers(L) on a fresh balancer, L in any order, the i-th
\* get_next_worker call (i = 0, 1, ...) returns element i mod N of sorted(L); for
\* localhost_60001/2/3 six calls return 60001, 60002, 60003, 60001, 60002, 60003.
C25_CallsFollowSortedOrder ==
    LET L == SortedSeqOf(Range(lb_workers["P"]))
        N == Len(L) IN
    /\ \A j \in DOMAIN lb_log :
          IF j <= EmptyCalls THEN lb_log[j] = None
          ELSE lb_log[j] = L[((j - EmptyCalls - 1) % N) + 1]
    /\ (N = 3 /\ EmptyCalls = 0 /\ Len(lb_log) >= 6) =>
          SubSeq(lb_log, 1, 6) = <<"localhost_60001", "localhost_60002", "localhost_60003",
                                   "localhost_60001", "localhost_60002", "localhost_60003">>

\* C25 witness: three workers, six calls since the update.
C25_Witness ==
    /\ Len(lb_workers["P"]) = 3 /\ EmptyCalls = 0 /\ Len(lb_log) = 6
    /\ lb_log[4] = "localhost_60001" /\ lb_log[6] = "localhost_60003"

\* sendall succeeds in this step: the worker d_worker[r] receives the task d_task[r]
IsSendOkStep(r) ==
    /\ d_pc[r] = "sendall" /\ d_pc'[r] = "get_next_task"
    /\ d_task[r] \in sent'

\* the task in the dispatcher's hands was reset by the liveness scan after the
\* dispatcher had dequeued it: it was rescued from the worker the dispatcher had
\* just assigned, d_worker[r]
HeldTaskWasRescued(r) ==
    /\ d_task[r] # NoTask
    /\ HeldTask(r).status = "PENDING"
    /\ d_task[r] \in Range(pending_tasks[r])

\* C26: a task rescued from a dead worker is eventually sent to a worker of the
\* surviving active set, and its next successful dispatch is never to the worker
\* that was declared dead, unless that worker has heartbeated again (it is back in
\* the worker table).  Checked: the safety half.
C26_RescuedNotSentToDeadWorker ==
    [][\A r \in Replicas :
          (IsSendOkStep(r) /\ HeldTaskWasRescued(r)) =>
              d_worker[r] \in Keys(workers[r])]_vars

\* C27: the value of the Lamport clock never decreases on any orchestrator,
\* whatever sequence of increment and snapshot-driven set_time calls it sees, also
\* when snapshots are lost, duplicated or reordered by the network.
C27_ClockNeverDecreases ==
    [][\A r \in Replicas : time'[r] >= time[r]]_vars

\* the position of id x in the queue q
PosIn(q, x) == CHOOSE i \in DOMAIN q : q[i] = x

\* the task has never been dequeued: it is PENDING, unassigned and was never sent
\* (get_next_task sets IN_PROGRESS and only the scan sets PENDING again, and only
\* for tasks that were assigned)
NeverDequeued(r, t) ==
    /\ t.id \in Range(pending_tasks[r])
    /\ t.status = "PENDING" /\ t.assigned_worker = None /\ t.id \notin sent
    /\ ~(d_task[r] = t.id)

\* C28: among the tasks that have never been dequeued, the order of the ids in
\* the pending queue agrees with the order of their lamport_ts (smaller nearer the
\* head), also when submit_task requests are handled by concurrent handlers.
C28_QueueOrderFollowsLamport ==
    \A r \in Replicas : NoRescueYet =>
        \A t, u \in TaskSet(r) :
            (NeverDequeued(r, t) /\ NeverDequeued(r, u) /\ t.lamport_ts < u.lamport_ts)
                => PosIn(pending_tasks[r], t.id) < PosIn(pending_tasks[r], u.id)

\* a task_complete datagram is handled in this step
IsDeliveryStep == Len(u_log') = Len(u_log) + 1

\* C29: update_task_status for a task id that is not in the task table leaves the
\* task table, the pending queue and the worker table unchanged and creates no
\* task.
C29_OrphanCompletionIsNoOp ==
    [][(IsDeliveryStep /\ ~Has(tasks["P"], u_log'[Len(u_log')].task_id)) =>
          /\ tasks' = tasks /\ pending_tasks' = pending_tasks /\ workers' = workers
          /\ Keys(tasks'["P"]) = Keys(tasks["P"])]_vars

\* C29 witness: a completion for an id the non-empty table does not hold was handled.
C29_Witness ==
    /\ u_log # <<>> /\ tasks["P"] # <<>>
    /\ ~Has(tasks["P"], u_log[Len(u_log)].task_id)

\* the deliveries that name task_id, as positions of the log
DeliveriesOf(task_id) == {k \in DOMAIN u_log : u_log[k].task_id = task_id}

\* the position of the last of them
LastDelivery(task_id) ==
    CHOOSE k \in DeliveriesOf(task_id) : \A j \in DeliveriesOf(task_id) : j <= k

\* C30: after any sequence of task_complete datagrams for the same known task id,
\* duplicated or in any order, the task is COMPLETED and carries the result of the
\* datagram delivered last.
C30_LastCompletionWins ==
    \A task_id \in Keys(tasks["P"]) :
        DeliveriesOf(task_id) # {} =>
            /\ Get(tasks["P"], task_id).status = "COMPLETED"
            /\ Get(tasks["P"], task_id).result = u_log[LastDelivery(task_id)].result

\* C30 witness: two completions with different results were delivered for one
\* task that was not COMPLETED before; it carries the second result.
C30_Witness ==
    /\ Len(u_log) = 2 /\ u_log[1].task_id = u_log[2].task_id
    /\ u_log[1].result = "r2" /\ u_log[2].result = "r1"
    /\ Has(tasks["P"], u_log[1].task_id)
    /\ Get(tasks["P"], u_log[1].task_id).result = "r1"
    /\ Get(tasks["P"], u_log[1].task_id).assigned_worker = None

\* the listener of r takes a 0x02 datagram off the network in this step
IsHeartbeatReceipt(r) ==
    /\ Listening(r) /\ b_pc[r] = "recvfrom" /\ b_pc'[r] = "check"
    /\ \E dgram \in net : dgram.tag = 2 /\ net' = net \ {dgram}

\* C31: a backup promotes itself only when more than PRIMARY_TIMEOUT has elapsed
\* since the last 0x02 heartbeat it received (since its start, if it received
\* none): last_primary_heartbeat is the start time until a 0x02 datagram is
\* received, each receipt sets it to the time of the receipt and nothing else
\* changes it, and no step makes a backup PRIMARY while it is at most
\* PRIMARY_TIMEOUT old; so a backup whose heartbeats keep arriving at intervals of
\* at most PRIMARY_TIMEOUT never becomes PRIMARY.
C31_NoPromotionWhileHeartbeatsArrive ==
    /\ [][\A r \in Replicas :
            /\ IsHeartbeatReceipt(r) => last_primary_heartbeat'[r] = now
            /\ last_primary_heartbeat'[r] # last_primary_heartbeat[r] =>
                   IsHeartbeatReceipt(r)
            /\ (role[r] = "BACKUP" /\ now - last_primary_heartbeat[r] <= PRIMARY_TIMEOUT)
                   => role'[r] = "BACKUP"]_vars
    /\ [](\A r \in Replicas : last_primary_heartbeat[r] <= now)

\* C31 witness: a backup that received a heartbeat exactly PRIMARY_TIMEOUT ago has
\* just made its check and is waiting in recvfrom again, still a backup.
C31_Witness ==
    /\ Listening("B") /\ b_pc["B"] = "recvfrom" /\ b_recv_start["B"] = now
    /\ last_primary_heartbeat["B"] > 0
    /\ now - last_primary_heartbeat["B"] = PRIMARY_TIMEOUT

\* C32: after a backup receives a corrupt 0x01 snapshot of any kind its backup
\* loop keeps running: a replica that is alive and still a backup is at the check
\* or in the recvfrom of listen_for_sync, so that a later snapshot is loaded and
\* the loss of the primary is still detected.
C32_BackupLoopSurvivesCorruptSnapshot ==
    \A r \in Replicas : Listening(r) => b_pc[r] \in {"check", "recvfrom"}

\* the consequence: the primary is gone, its last heartbeat is older than
\* PRIMARY_TIMEOUT, and the backup, whose listener thread has ended, stays a backup
BackupStrandedAfterCorruptSnapshot ==
    /\ ~alive["P"] /\ Listening("B") /\ b_pc["B"] = "crashed"
    /\ now - last_primary_heartbeat["B"] > PRIMARY_TIMEOUT

\* the ids whose status is COMPLETED in the task table T
CompletedIds(T) == {id \in Keys(T) : Get(T, id).status = "COMPLETED"}

\* C33: once a task's status is COMPLETED on an orchestrator it stays COMPLETED:
\* no dequeue, worker-death rescue or dispatcher step changes the status of a
\* completed task.
C33_CompletedStaysCompleted ==
    [][\A r \in Replicas :
          CompletedIds(tasks[r]) \subseteq CompletedIds(tasks'[r])]_vars

\* the state that precedes the loss: a completed task is still in the pending queue
CompletedTaskStillQueued ==
    \E id \in CompletedIds(tasks["P"]) : id \in Range(pending_tasks["P"])

\* the second half of the loss: the dispatcher sends a task whose completion had
\* been recorded before it was dequeued
CompletedTaskSentAgain ==
    /\ d_pc["P"] = "sendall" /\ d_task["P"] \in sent
    /\ HeldTask("P").status = "IN_PROGRESS" /\ HeldTask("P").result # None

\* the dispatcher of r ends an iteration with a successful sendall and leaves the
\* task it handled IN_PROGRESS, assigned to the worker it chose
LeftInProgress(r) ==
    /\ IsSendOkStep(r)
    /\ Has(tasks'[r], d_task[r])
    /\ Get(tasks'[r], d_task[r]).status = "IN_PROGRESS"
    /\ Get(tasks'[r], d_task[r]).assigned_worker = d_worker[r]

\* C34: no task is stranded by the race between the dispatcher and the liveness
\* monitor: whenever the dispatcher has finished handling a task and left it
\* IN_PROGRESS with assigned_worker = w, w is a key of the worker table, for every
\* interleaving of distribute_tasks with check_dead_workers.
C34_AssignedWorkerIsRegistered ==
    [][\A r \in Replicas :
          LeftInProgress(r) => d_worker[r] \in Keys(workers'[r])]_vars

\* the stranded task: IN_PROGRESS, out of the dispatcher's hands and of the queue,
\* assigned to a worker that is not in the worker table, which is empty, so that
\* no scan will ever reset it
TaskStranded ==
    \E id \in Keys(tasks["P"]) :
       LET t == Get(tasks["P"], id) IN
       /\ t.status = "IN_PROGRESS" /\ t.assigned_worker # None
       /\ id # d_task["P"] /\ id \notin Range(pending_tasks["P"])
       /\ workers["P"] = <<>> /\ m_pc["P"] = "sleep"

\* get_next_worker() returns in this step; its value is the last entry of the log
IsGetNextWorkerStep == Len(lb_log') = Len(lb_log) + 1

\* C35: after any sequence of update_workers and get_next_worker calls the cursor
\* is 0 when the worker list is empty and otherwise 0 <= cursor < length of the
\* list; get_next_worker returns none exactly when the list is empty and otherwise
\* returns an id of the list most recently passed to update_workers.
C35_CursorInRangeAndReturnsListed ==
    /\ [](\A r \in Replicas :
             IF lb_workers[r] = <<>> THEN current_index[r] = 0
             ELSE 0 <= current_index[r] /\ current_index[r] < Len(lb_workers[r]))
    /\ [][IsGetNextWorkerStep =>
             LET w == lb_log'[Len(lb_log')] IN
             /\ (w = None) <=> (lb_workers["P"] = <<>>)
             /\ (w = None) <=> (m_active["P"] = <<>>)
             /\ w # None => w \in Range(m_active["P"])]_vars

\* C35 witness: two calls returned two different workers, the list was then
\* replaced by a list of one other worker, and the last call returned that worker.
C35_Witness ==
    /\ Len(lb_log) >= 3 /\ lb_log[1] # None /\ lb_log[2] # None
    /\ lb_log[1] # lb_log[2]
    /\ Len(lb_workers["P"]) = 1 /\ lb_log[Len(lb_log)] = lb_workers["P"][1]
    /\ lb_log[Len(lb_log)] \notin {lb_log[1], lb_log[2]}
    /\ current_index["P"] = 0
====
